---- MODULE Spec2Model ----
(***************************************************************************)
(* A model of irrep/gvectors.py: the G-vector generator calc_gvectors, the *)
(* rotation mapper transformed_g and the two evaluators symm_eigenvalues   *)
(* and symm_matrix.                                                        *)
(*                                                                         *)
(* Numbers.  The k-point is rational: the variable K holds its numerators  *)
(* and kden the common denominator, K_real = K / kden.  RecLattice is an   *)
(* integer matrix.  Energies are exact integers in the unit                *)
(* 1 / (kden^2 * twomhbar2): etot = |(K + kden*G) . B|^2.  Ecut, Ecut1 and *)
(* thresh are given in the same unit.                                      *)
(***************************************************************************)
EXTENDS Integers, Sequences, FiniteSets, TLC

VARIABLES
    K, kden, RecLattice, Ecut, Ecut1arg, Ecut1, thresh, nplane, spinor, nplanemax,
    pc, N, igall, Eg, memory, table,
    A, rotind, T, S, WF, evspinor, traces, matrix

\* the arguments of calc_gvectors
inputs == <<K, kden, RecLattice, Ecut, Ecut1arg, Ecut1, thresh, nplane, spinor,
            nplanemax>>
\* the symmetry operation, the wave functions and what the calls on them gave
symvars == <<A, rotind, T, S, WF, evspinor, traces, matrix>>
vars == <<inputs, pc, N, igall, Eg, memory, table, symvars>>

(***************************************************************************)
(* Bounds of the model's inputs.                                           *)
(***************************************************************************)
MaxEcut == 9
MaxThresh == 4
MaxNplane == 5
MaxRadius == 14
\* the L1 radius of the reference enumerations: no triple outside it has an
\* energy below MaxEcut at the k-points and lattices of the model.
RefRadius == 4

\* np.Inf, the default of nplane: larger than every count the model reaches.
Inf == 1000000
\* len(memory): the sliding window of np.full(10, True).
MemLen == 10

(***************************************************************************)
(* Integer vectors and matrices (3-tuples, and 3-tuples of rows).          *)
(***************************************************************************)
Abs(x) == IF x < 0 THEN -x ELSE x

VAdd(u, v) == <<u[1] + v[1], u[2] + v[2], u[3] + v[3]>>
VSub(u, v) == <<u[1] - v[1], u[2] - v[2], u[3] - v[3]>>
VScale(c, v) == <<c * v[1], c * v[2], c * v[3]>>
Dot(u, v) == u[1] * v[1] + u[2] * v[2] + u[3] * v[3]

\* v.dot(M): the row vector v times the matrix M.
VecMat(v, M) ==
    <<v[1] * M[1][1] + v[2] * M[2][1] + v[3] * M[3][1],
      v[1] * M[1][2] + v[2] * M[2][2] + v[3] * M[3][2],
      v[1] * M[1][3] + v[2] * M[2][3] + v[3] * M[3][3]>>

\* M.dot(v): the matrix M times the column vector v.
MatVec(M, v) == <<Dot(M[1], v), Dot(M[2], v), Dot(M[3], v)>>

\* norm(v) ** 2
NormSq(v) == Dot(v, v)

\* etot of one candidate, line 124, in the unit 1 / (kden^2 * twomhbar2).
Etot(k, den, B, igp) == NormSq(VecMat(VAdd(k, VScale(den, igp)), B))

(***************************************************************************)
(* The enumeration of one radius N, lines 120-128.                         *)
(***************************************************************************)
\* Ig1Set with the list [-r, r] in place of the set: r = 0 is visited twice.
Ig1List(r, posFirst) == IF posFirst THEN <<r, -r>> ELSE <<-r, r>>

\* set([-r, r]) in iteration order: one element for r = 0, and for r > 0 the
\* two in an order the language leaves open (posFirst chooses it).
Ig1Set(r, posFirst) ==
    IF r = 0 THEN <<0>> ELSE IF posFirst THEN <<r, -r>> ELSE <<-r, r>>

\* one visit of the innermost loop body: <<ig3, ig2, j>>, j the position of
\* ig1 in the iteration of set([-(N-|ig3|-|ig2|), N-|ig3|-|ig2|]).
Visits(n) ==
    UNION {UNION {{<<ig3, ig2, j>> :
                      j \in 1..Len(Ig1Set(n - Abs(ig3) - Abs(ig2), TRUE))} :
                  ig2 \in (-(n - Abs(ig3)))..(n - Abs(ig3))} :
           ig3 \in (-n)..n}

\* igp of a visit, line 123.
Igp(n, order, v) ==
    LET r == n - Abs(v[1]) - Abs(v[2])
        first == IF r \in DOMAIN order THEN order[r] ELSE TRUE
    IN  <<Ig1Set(r, first)[v[3]], v[2], v[1]>>

\* v comes before w in the three nested loops.
Before(v, w) ==
    \/ v[1] < w[1]
    \/ v[1] = w[1] /\ v[2] < w[2]
    \/ v[1] = w[1] /\ v[2] = w[2] /\ v[3] < w[3]

RECURSIVE InLoopOrder(_)
InLoopOrder(vs) ==
    IF vs = {} THEN <<>>
    ELSE LET v == CHOOSE x \in vs : \A y \in vs \ {x} : Before(x, y)
         IN  <<v>> \o InLoopOrder(vs \ {v})

\* the triples radius n appends to igall, in the order it appends them.
RadiusFound(k, den, B, ecut, n, order) ==
    LET kept == InLoopOrder({v \in Visits(n) : Etot(k, den, B, Igp(n, order, v)) < ecut})
    IN  [i \in 1..Len(kept) |-> Igp(n, order, kept[i])]

\* the values |ig1| > 0 for which the two orders of set([-r, r]) differ in
\* what is appended.
OpenRadii(k, den, B, ecut, n) ==
    LET found == RadiusFound(k, den, B, ecut, n, <<>>)
    IN  {Abs(found[i][1]) : i \in 1..Len(found)} \ {0}

\* memory[:-1] = memory[1:]; memory[-1] = flag
Shift(mem, flag) == Append(Tail(mem), flag)

\* np.all(memory)
All(mem) == \A i \in 1..Len(mem) : mem[i]

(***************************************************************************)
(* The head of one iteration of "for N in range(nplanemax)", lines 104-118.*)
(***************************************************************************)
\* len(igall) >= nplane / 2 and then spinor, or len(igall) >= nplane: break.
HeadBreak(found, np, sp) ==
    /\ 2 * Len(found) >= np
    /\ (sp \/ Len(found) >= np)

\* HeadStuck with the test on the spinor flag inverted.
HeadStuckSpinor(found, np, sp, mem) ==
    /\ 2 * Len(found) >= np
    /\ sp
    /\ Len(found) < np
    /\ All(mem)

\* the elif of line 110: raise the "stuck" RuntimeError.
HeadStuck(found, np, sp, mem) ==
    /\ 2 * Len(found) >= np
    /\ ~sp
    /\ Len(found) < np
    /\ All(mem)

(***************************************************************************)
(* After the loop, lines 132-174.                                          *)
(***************************************************************************)
\* lines 135-149: the plane-wave count check, only when nplane is finite.
CountMismatch(ncnt, np, sp) ==
    /\ np < Inf
    /\ IF sp THEN 2 * ncnt # np ELSE ncnt # np

Column(igs, c) == {igs[i][c] : i \in 1..Len(igs)}
SetMax(xs) == CHOOSE x \in xs : \A y \in xs : y <= x
SetMin(xs) == CHOOSE x \in xs : \A y \in xs : x <= y

\* ng = igall.max(axis=0) - igall.min(axis=0), line 151 (igall not empty).
SpanOf(igs) ==
    <<SetMax(Column(igs, 1)) - SetMin(Column(igs, 1)),
      SetMax(Column(igs, 2)) - SetMin(Column(igs, 2)),
      SetMax(Column(igs, 3)) - SetMin(Column(igs, 3))>>

\* the integer % of numpy: the sign of the divisor, and 0 for a zero divisor.
NpMod(a, n) == IF n = 0 THEN 0 ELSE a % n

\* the sort key of line 155 for one vector.
SortKey(g, ng) ==
    (NpMod(g[3], ng[3]) * ng[2] + NpMod(g[2], ng[2])) * ng[1] + NpMod(g[1], ng[1])

\* np.argsort(key) with the default, unstable kind: every order of the
\* positions 1..Len(key) that puts the keys in non-decreasing order.
RECURSIVE ArgsortsOf(_, _)
ArgsortsOf(key, rest) ==
    IF rest = {} THEN {<<>>}
    ELSE LET m == SetMin({key[i] : i \in rest})
         IN  UNION {{<<i>> \o t : t \in ArgsortsOf(key, rest \ {i})} :
                        i \in {j \in rest : key[j] = m}}

Argsort(key) == ArgsortsOf(key, DOMAIN key)

\* a[perm]: fancy indexing by a sequence of positions.
Take(a, perm) == [i \in 1..Len(perm) |-> a[perm[i]]]

\* MaskLe with the mask all True: no column is dropped.
MaskAll(a, bound, i) == [j \in 1..Len(a) |-> j]

\* np.where(mask)[0] as positions of a, ascending, for mask = (a <= bound).
RECURSIVE MaskLe(_, _, _)
MaskLe(a, bound, i) ==
    IF i > Len(a) THEN <<>>
    ELSE (IF a[i] <= bound THEN <<i>> ELSE <<>>) \o MaskLe(a, bound, i + 1)

\* Gaps with >= in place of >.
RECURSIVE GapsGe(_, _, _)
GapsGe(eg, th, i) ==
    IF i >= Len(eg) THEN <<>>
    ELSE (IF eg[i + 1] - eg[i] >= th THEN <<i>> ELSE <<>>) \o GapsGe(eg, th, i + 1)

\* wall of line 169: 0, then every position whose energy exceeds its
\* predecessor's by more than thresh, then the table's length.
RECURSIVE Gaps(_, _, _)
Gaps(eg, th, i) ==
    IF i >= Len(eg) THEN <<>>
    ELSE (IF eg[i + 1] - eg[i] > th THEN <<i>> ELSE <<>>) \o Gaps(eg, th, i + 1)

Wall(eg, th) == <<0>> \o Gaps(eg, th, 1) \o <<Len(eg)>>

\* lines 170-172: rows 4 and 5 of every column between two walls.
RECURSIVE Shells(_, _, _)
Shells(rows, wall, i) ==
    IF i > Len(wall) - 1 THEN rows
    ELSE Shells([p \in DOMAIN rows |->
                    IF wall[i] <= p - 1 /\ p - 1 < wall[i + 1]
                    THEN [rows[p] EXCEPT !.first = wall[i], !.last = wall[i + 1]]
                    ELSE rows[p]],
                wall, i + 1)

\* lines 150-174 for one outcome of the two argsorts: the returned table
\* (one record per column: rows 0-2 as g, row 3 as srt, rows 4 and 5 as
\* first and last) and the energies of its columns.
BuildTable(igs, egs, ecut1, th, igallsrt, srt) ==
    LET igall1 == Take(igs, igallsrt)
        eg1 == Take(egs, igallsrt)
        rows == [i \in 1..Len(igs) |->
                    [g |-> igall1[i], srt |-> i - 1, first |-> 0, last |-> 0]]
        keep == MaskLe(eg1, ecut1, 1)
        rows2 == Take(rows, keep)
        eg2 == Take(eg1, keep)
        rows3 == Take(rows2, srt)
        eg3 == Take(eg2, srt)
    IN  [tab |-> Shells(rows3, Wall(eg3, th), 1), eg |-> eg3]

\* the keys line 155 sorts by.
SortKeys(igs) == [i \in 1..Len(igs) |-> SortKey(igs[i], SpanOf(igs))]

\* every table lines 150-174 can return for the found vectors.
Tables(igs, egs, ecut1, th) ==
    UNION {LET eg2 == Take(Take(egs, igallsrt), MaskLe(Take(egs, igallsrt), ecut1, 1))
           IN  {BuildTable(igs, egs, ecut1, th, igallsrt, srt) : srt \in Argsort(eg2)} :
              igallsrt \in Argsort(SortKeys(igs))}

\* no symmetry operation has been applied yet.
NoOperation ==
    /\ A = <<>>
    /\ rotind = <<>>
    /\ T = <<>>
    /\ S = <<>>
    /\ WF = <<>>
    /\ evspinor = FALSE
    /\ traces = <<>>
    /\ matrix = <<>>

(***************************************************************************)
(* calc_gvectors as a state machine: pc is "loop" at the head of iteration *)
(* N, "post" after the loop, and then the outcome of the call.             *)
(***************************************************************************)
\* k-points as numerators over 2: Gamma, X and M.
KPoints == {<<0, 0, 0>>, <<1, 0, 0>>, <<1, 1, 0>>}
\* reciprocal lattices, one basis vector per row: a tetragonal one (the
\* first two vectors equal in length and perpendicular) and a monoclinic one.
Tetragonal == <<<<1, 1, 0>>, <<-1, 1, 0>>, <<0, 0, 2>>>>
Monoclinic == <<<<1, 0, 0>>, <<1, 3, 0>>, <<0, 0, 3>>>>
Lattices == {Tetragonal, Monoclinic}

InitCall(k, B, ecut, ecut1, th, np, sp, npmax) ==
    /\ K = k
    /\ kden = 2
    /\ RecLattice = B
    /\ Ecut = ecut
    /\ Ecut1arg = ecut1
    /\ Ecut1 = IF ecut1 <= 0 THEN ecut ELSE ecut1
    /\ thresh = th
    /\ nplane = np
    /\ spinor = sp
    /\ nplanemax = npmax
    /\ pc = "loop"
    /\ N = 0
    /\ igall = <<>>
    /\ Eg = <<>>
    /\ memory = [i \in 1..MemLen |-> TRUE]
    /\ table = <<>>
    /\ NoOperation

\* calls with few radii and every other input varied, and calls with many
\* radii (enough for the sliding window of length 10 to fill) and the
\* default Ecut1.
Init ==
    \/ \E k \in KPoints, B \in Lattices, ecut \in {MaxEcut - 8, MaxEcut},
          ecut1 \in {-1, 4, 12}, th \in {0, MaxThresh},
          np \in (0..MaxNplane) \cup {Inf}, sp \in BOOLEAN, npmax \in {1, 2, 3} :
           InitCall(k, B, ecut, ecut1, th, np, sp, npmax)
    \/ \E k \in KPoints, B \in Lattices, ecut \in {MaxEcut - 8, MaxEcut},
          np \in (0..MaxNplane) \cup {Inf}, sp \in BOOLEAN :
           InitCall(k, B, ecut, -1, 0, np, sp, MaxRadius)

Break ==
    /\ pc = "loop"
    /\ N < nplanemax
    /\ HeadBreak(igall, nplane, spinor)
    /\ pc' = "post"
    /\ UNCHANGED <<inputs, N, igall, Eg, memory, table, symvars>>

Stuck ==
    /\ pc = "loop"
    /\ N < nplanemax
    /\ HeadStuck(igall, nplane, spinor, memory)
    /\ pc' = "stuck"
    /\ UNCHANGED <<inputs, N, igall, Eg, memory, table, symvars>>

Radius ==
    /\ pc = "loop"
    /\ N < nplanemax
    /\ ~HeadBreak(igall, nplane, spinor)
    /\ ~HeadStuck(igall, nplane, spinor, memory)
    /\ \E order \in [OpenRadii(K, kden, RecLattice, Ecut, N) -> BOOLEAN] :
        LET found == RadiusFound(K, kden, RecLattice, Ecut, N, order)
        IN  /\ igall' = igall \o found
            /\ Eg' = Eg \o [i \in 1..Len(found) |-> Etot(K, kden, RecLattice, found[i])]
            /\ memory' = Shift(memory, found = <<>>)
    /\ N' = N + 1
    /\ UNCHANGED <<inputs, pc, table, symvars>>

LoopEnd ==
    /\ pc = "loop"
    /\ N = nplanemax
    /\ pc' = "post"
    /\ UNCHANGED <<inputs, N, igall, Eg, memory, table, symvars>>

RaiseMismatch ==
    /\ pc = "post"
    /\ CountMismatch(Len(igall), nplane, spinor)
    /\ pc' = "mismatch"
    /\ UNCHANGED <<inputs, N, igall, Eg, memory, table, symvars>>

\* igall.max(axis=0) of an empty array, line 151, raises ValueError.
RaiseEmpty ==
    /\ pc = "post"
    /\ ~CountMismatch(Len(igall), nplane, spinor)
    /\ igall = <<>>
    /\ pc' = "ValueError"
    /\ UNCHANGED <<inputs, N, igall, Eg, memory, table, symvars>>

Return ==
    /\ pc = "post"
    /\ ~CountMismatch(Len(igall), nplane, spinor)
    /\ igall # <<>>
    /\ \E t \in Tables(igall, Eg, Ecut1, thresh) :
        /\ table' = t.tab
        /\ Eg' = t.eg
    /\ pc' = "returned"
    /\ UNCHANGED <<inputs, N, igall, memory, symvars>>

Next == Break \/ Stuck \/ Radius \/ LoopEnd \/ RaiseMismatch \/ RaiseEmpty \/ Return

Spec == Init /\ [][Next]_vars

(***************************************************************************)
(* transformed_g, lines 209-242.  np.linalg.inv(A).T is kept exact as the  *)
(* integer matrix InvTNum(A) over the positive integer InvTDen(A).         *)
(***************************************************************************)
Det(m) ==
      m[1][1] * (m[2][2] * m[3][3] - m[2][3] * m[3][2])
    - m[1][2] * (m[2][1] * m[3][3] - m[2][3] * m[3][1])
    + m[1][3] * (m[2][1] * m[3][2] - m[2][2] * m[3][1])

Transpose(m) ==
    <<<<m[1][1], m[2][1], m[3][1]>>,
      <<m[1][2], m[2][2], m[3][2]>>,
      <<m[1][3], m[2][3], m[3][3]>>>>

\* the matrix of cofactors: inv(m) = Transpose(Cofactors(m)) / Det(m).
Cofactors(m) ==
    <<<<m[2][2] * m[3][3] - m[2][3] * m[3][2],
        m[2][3] * m[3][1] - m[2][1] * m[3][3],
        m[2][1] * m[3][2] - m[2][2] * m[3][1]>>,
      <<m[1][3] * m[3][2] - m[1][2] * m[3][3],
        m[1][1] * m[3][3] - m[1][3] * m[3][1],
        m[1][2] * m[3][1] - m[1][1] * m[3][2]>>,
      <<m[1][2] * m[2][3] - m[1][3] * m[2][2],
        m[1][3] * m[2][1] - m[1][1] * m[2][3],
        m[1][1] * m[2][2] - m[1][2] * m[2][1]>>>>

MScale(c, m) == <<VScale(c, m[1]), VScale(c, m[2]), VScale(c, m[3])>>

\* np.linalg.inv(m) = InvNum(m) / InvDen(m), the denominator positive.
InvDen(m) == Abs(Det(m))
InvNum(m) == MScale(IF Det(m) < 0 THEN -1 ELSE 1, Transpose(Cofactors(m)))

\* B = np.linalg.inv(A).T, line 209: InvTNum(A) / InvDen(A).
InvTNum(m) == Transpose(InvNum(m))

\* np.round of the rational n / d, d > 0: to the nearest integer, a half to
\* the even neighbour.
Round(n, d) ==
    LET q == n \div d
        r == n - q * d
    IN  IF 2 * r < d THEN q
        ELSE IF 2 * r > d THEN q + 1
        ELSE IF q % 2 = 0 THEN q ELSE q + 1

\* the defaults of np.isclose: atol = 1 / AtolInv, rtol = 1 / RtolInv.
AtolInv == 100000000
RtolInv == 100000

\* IsClose with a tolerance of zero: exact equality.
IsExact(a, n, d) == a * d = n

\* np.isclose(a, n / d) for an integer a and d > 0:
\* |a - n/d| <= atol + rtol * |n/d|, that is
\* AtolInv * |a*d - n| <= d + (AtolInv / RtolInv) * |n|, computed without
\* leaving 32 bits.
IsClose(a, n, d) ==
    LET x == Abs(a * d - n)
        scale == AtolInv \div RtolInv
        bound == (d \div AtolInv) + (Abs(n) \div RtolInv)
                 + (((d % AtolInv) + scale * (Abs(n) % RtolInv)) \div AtolInv)
    IN  x <= bound

\* kpt_ - kpt of line 211 as numerators over the denominator den * InvDen(a).
DkptNum(kpt, a) == VSub(MatVec(InvTNum(a), kpt), VScale(InvDen(a), kpt))

\* Dkpt without the wrap-around: the k-point is taken to map to itself.
DkptZero(kpt, den, a) == <<0, 0, 0>>

\* dkpt of line 211.
Dkpt(kpt, den, a) ==
    LET d == DkptNum(kpt, a)
    IN  <<Round(d[1], den * InvDen(a)), Round(d[2], den * InvDen(a)),
          Round(d[3], den * InvDen(a))>>

\* the test of line 214.
NotClose(kpt, den, a) ==
    LET d == DkptNum(kpt, a)
        dk == Dkpt(kpt, den, a)
    IN  \E c \in 1..3 : ~IsClose(dk[c], d[c], den * InvDen(a))

\* one column of igTr, lines 221-222.
IgTr(g, dk, a) ==
    LET bg == MatVec(InvTNum(a), g)
        d == InvDen(a)
    IN  <<Round(bg[1] + d * dk[1], d), Round(bg[2] + d * dk[2], d),
          Round(bg[3] + d * dk[3], d)>>

\* FirstMatch with .any() in place of .all(): one equal coordinate is a match.
RECURSIVE FirstMatchAny(_, _, _, _)
FirstMatchAny(ig, tr, j, last) ==
    IF j >= last THEN -1
    ELSE IF \E c \in 1..3 : ig[j + 1].g[c] = tr[c] THEN j
    ELSE FirstMatchAny(ig, tr, j + 1, last)

\* the inner loop of lines 228-231: the first j in range(j, last) whose
\* vector equals tr, and -1 when there is none.
RECURSIVE FirstMatch(_, _, _, _)
FirstMatch(ig, tr, j, last) ==
    IF j >= last THEN -1
    ELSE IF ig[j + 1].g = tr THEN j
    ELSE FirstMatch(ig, tr, j + 1, last)

\* what transformed_g does: err is "NotSymmetryError", "RuntimeError" (no
\* pair found, raised at the first column without one) or "none", and then
\* rotind is the returned map, 0-based as in the code.
TransformedG(kpt, den, ig, a) ==
    IF NotClose(kpt, den, a) THEN [err |-> "NotSymmetryError", rotind |-> <<>>]
    ELSE LET dk == Dkpt(kpt, den, a)
             rot == [i \in 1..Len(ig) |->
                        FirstMatch(ig, IgTr(ig[i].g, dk, a), ig[i].first, ig[i].last)]
         IN  IF \E i \in 1..Len(ig) : rot[i] = -1
             THEN [err |-> "RuntimeError", rotind |-> <<>>]
             ELSE [err |-> "none", rotind |-> rot]

(***************************************************************************)
(* The symmetry operations the model applies.                              *)
(***************************************************************************)
Identity == <<<<1, 0, 0>>, <<0, 1, 0>>, <<0, 0, 1>>>>
Inversion == <<<<-1, 0, 0>>, <<0, -1, 0>>, <<0, 0, -1>>>>
C4z == <<<<0, -1, 0>>, <<1, 0, 0>>, <<0, 0, 1>>>>
C4zInv == <<<<0, 1, 0>>, <<-1, 0, 0>>, <<0, 0, 1>>>>
C2z == <<<<-1, 0, 0>>, <<0, -1, 0>>, <<0, 0, 1>>>>
MirrorX == <<<<-1, 0, 0>>, <<0, 1, 0>>, <<0, 0, 1>>>>
SwapXZ == <<<<0, 0, 1>>, <<0, 1, 0>>, <<1, 0, 0>>>>
Shear == <<<<1, 1, 0>>, <<0, 1, 0>>, <<0, 0, 1>>>>
ShearInv == <<<<1, -1, 0>>, <<0, 1, 0>>, <<0, 0, 1>>>>

\* integer matrices with an integer inverse (determinant 1 or -1)
Operations == {Identity, Inversion, C4z, C4zInv, C2z, MirrorX, SwapXZ, Shear, ShearInv}

\* a direct call of transformed_g on the returned table.
CallTransformedG ==
    /\ pc = "returned"
    /\ \E a \in Operations :
        /\ A' = a
        /\ rotind' = TransformedG(K, kden, table, a)
    /\ pc' = "mapped"
    /\ UNCHANGED <<inputs, N, igall, Eg, memory, table, T, S, WF, evspinor,
                   traces, matrix>>

\* calls of calc_gvectors with nplane unspecified.
InitRot ==
    \E k \in KPoints, B \in Lattices, ecut1 \in {-1, 4}, th \in {0, MaxThresh},
       npmax \in {1, 2, 3} :
        InitCall(k, B, MaxEcut, ecut1, th, Inf, FALSE, npmax)

NextRot == Radius \/ LoopEnd \/ Return \/ CallTransformedG

SpecRot == InitRot /\ [][NextRot]_vars

(***************************************************************************)
(* transformed_g on a table the caller supplies, for k-points given to 8   *)
(* decimal places: K holds numerators over kden = KFine.                   *)
(***************************************************************************)
KFine == AtolInv
Half == KFine \div 2

\* coordinates at 0 and 1/2 and next to them, inside and outside the
\* tolerance of line 214.
FineCoordinates == {0, 1, Half, Half + 500, Half + 501}

Column1(g, srt, first, last) == [g |-> g, srt |-> srt, first |-> first, last |-> last]

\* tables calc_gvectors returns at the k-point k on the tetragonal lattice:
\* G = 0 alone (nplanemax = 1), and for k next to a zone face or edge the
\* one shell of nearly equal energies, lowest first.
SuppliedTables(k) ==
    {<<Column1(<<0, 0, 0>>, 0, 0, 1)>>}
    \cup (IF k[1] >= Half /\ k[2] <= 1 /\ k[3] = 0
          THEN {<<Column1(<<-1, 0, 0>>, 0, 0, 2), Column1(<<0, 0, 0>>, 1, 0, 2)>>}
          ELSE {})
    \cup (IF k[1] >= Half /\ k[2] = Half /\ k[3] = 0
          THEN {<<Column1(<<-1, 0, 0>>, 0, 0, 4), Column1(<<-1, -1, 0>>, 1, 0, 4),
                  Column1(<<0, 0, 0>>, 2, 0, 4), Column1(<<0, -1, 0>>, 3, 0, 4)>>}
          ELSE {})

InitKpt ==
    \E k1 \in FineCoordinates, k2 \in FineCoordinates, k3 \in {0, Half} :
      \E ig \in SuppliedTables(<<k1, k2, k3>>) :
        /\ K = <<k1, k2, k3>>
        /\ kden = KFine
        /\ RecLattice = Tetragonal
        /\ Ecut = 0
        /\ Ecut1arg = 0
        /\ Ecut1 = 0
        /\ thresh = 0
        /\ nplane = Inf
        /\ spinor = FALSE
        /\ nplanemax = 0
        /\ pc = "returned"
        /\ N = 0
        /\ igall = <<>>
        /\ Eg = <<>>
        /\ memory = [i \in 1..MemLen |-> TRUE]
        /\ table = ig
        /\ NoOperation

NextKpt == CallTransformedG

SpecKpt == InitKpt /\ [][NextKpt]_vars

(***************************************************************************)
(* symm_eigenvalues and symm_matrix, lines 287-301 and 346-355.  Complex   *)
(* numbers are exact pairs <<re, im>> of integers.  The translation T is   *)
(* held as numerators over 2, and with kden = 2 and an integer inv(A) the  *)
(* argument of every phase is a multiple of a quarter turn.  WF holds the  *)
(* coefficients of orthonormal bands times their common norm, so both      *)
(* results come in the same unit, 1 over the squared norm.                 *)
(***************************************************************************)
CZero == <<0, 0>>
COne == <<1, 0>>
CI == <<0, 1>>
CAdd(x, y) == <<x[1] + y[1], x[2] + y[2]>>
CMul(x, y) == <<x[1] * y[1] - x[2] * y[2], x[1] * y[2] + x[2] * y[1]>>
CNeg(x) == <<-x[1], -x[2]>>
Conj(x) == <<x[1], -x[2]>>

RECURSIVE CSum(_)
CSum(xs) == IF xs = <<>> THEN CZero ELSE CAdd(Head(xs), CSum(Tail(xs)))

\* np.exp(-1.0j * 2 * np.pi * q / 4) for an integer q.
CExp(q) ==
    CASE q % 4 = 0 -> <<1, 0>>
      [] q % 4 = 1 -> <<0, -1>>
      [] q % 4 = 2 -> <<-1, 0>>
      [] q % 4 = 3 -> <<0, 1>>

\* u.dot(igall[:3, :] + K[:, None]) in quarters, for u in halves, one column.
PhaseQuarters(kpt, den, u, g) == Dot(u, VAdd(kpt, VScale(den, g)))

\* multZ of symm_eigenvalues, lines 288-290: the phase of inv(A).dot(T).
MultZEigenvalues(kpt, den, ig, a, t) ==
    [g \in 1..Len(ig) |-> CExp(PhaseQuarters(kpt, den, MatVec(InvNum(a), t), ig[g].g))]

\* multZ of symm_matrix, line 347: the phase of A.dot(T).
MultZMatrix(kpt, den, ig, a, t) ==
    [g \in 1..Len(ig) |-> CExp(PhaseQuarters(kpt, den, MatVec(a, t), ig[g].g))]

\* symm_eigenvalues: the error transformed_g raises, or one value per band.
SymmEigenvalues(kpt, den, wf, ig, a, s, t, sp) ==
    LET npw1 == Len(ig)
        multZ == MultZEigenvalues(kpt, den, ig, a, t)
        tg == TransformedG(kpt, den, ig, a)
        igrot == tg.rotind
        part1(m, g) == CMul(CMul(Conj(wf[m][igrot[g] + 1]), wf[m][g]), s[1][1])
        part2(m, g) ==
            CAdd(CMul(CMul(Conj(wf[m][igrot[g] + 1 + npw1]), wf[m][g + npw1]), s[2][2]),
            CAdd(CMul(CMul(Conj(wf[m][igrot[g] + 1]), wf[m][g + npw1]), s[1][2]),
                 CMul(CMul(Conj(wf[m][igrot[g] + 1 + npw1]), wf[m][g]), s[2][1])))
        term(m, g) ==
            IF sp THEN CAdd(part1(m, g), part2(m, g))
            ELSE CMul(Conj(wf[m][igrot[g] + 1]), wf[m][g])
    IN  IF tg.err # "none" THEN [err |-> tg.err, val |-> <<>>]
        ELSE [err |-> "none",
              val |-> [m \in 1..Len(wf) |->
                          CSum([g \in 1..npw1 |-> CMul(term(m, g), multZ[g])])]]

\* symm_matrix: the error transformed_g raises, or the matrix S_mn.
SymmMatrix(kpt, den, wf, ig, a, s, t, sp) ==
    LET npw1 == Len(ig)
        multZ == MultZMatrix(kpt, den, ig, a, t)
        tg == TransformedG(kpt, den, ig, a)
        igrot == tg.rotind
        \* WF1[m, g, c] and WF2[n, g, c] of lines 350-351, c = 1, 2
        WF1(m, g, c) == Conj(wf[m][igrot[g] + 1 + (c - 1) * npw1])
        WF2(n, g, c) == wf[n][g + (c - 1) * npw1]
        term(m, n, g) ==
            IF sp
            THEN CSum([x \in 1..4 |->
                          LET c == ((x - 1) \div 2) + 1
                              d == ((x - 1) % 2) + 1
                          IN  CMul(CMul(WF1(m, g, c), WF2(n, g, d)), s[c][d])])
            ELSE CMul(Conj(wf[m][igrot[g] + 1]), wf[n][g])
    IN  IF tg.err # "none" THEN [err |-> tg.err, val |-> <<>>]
        ELSE [err |-> "none",
              val |-> [m \in 1..Len(wf) |-> [n \in 1..Len(wf) |->
                          CSum([g \in 1..npw1 |-> CMul(term(m, n, g), multZ[g])])]]]

(***************************************************************************)
(* The evaluators on the tables of three k-points, for bands and           *)
(* operations the caller supplies.                                         *)
(***************************************************************************)
\* the k-point (numerators over 2) with a table calc_gvectors returns for it
\* on the tetragonal lattice with Ecut = MaxEcut and thresh = 0.
EvalTables ==
    {<<<<0, 0, 0>>, <<Column1(<<0, 0, 0>>, 0, 0, 1)>>>>,
     <<<<0, 0, 0>>,
       <<Column1(<<0, 0, 0>>, 2, 0, 1), Column1(<<1, 0, 0>>, 3, 1, 5),
         Column1(<<0, -1, 0>>, 0, 1, 5), Column1(<<-1, 0, 0>>, 4, 1, 5),
         Column1(<<0, 1, 0>>, 1, 1, 5)>>>>,
     <<<<1, 0, 0>>,
       <<Column1(<<-1, 0, 0>>, 0, 0, 2), Column1(<<0, 0, 0>>, 1, 0, 2)>>>>,
     <<<<1, 1, 0>>,
       <<Column1(<<0, 0, 0>>, 0, 0, 4), Column1(<<-1, 0, 0>>, 1, 0, 4),
         Column1(<<-1, -1, 0>>, 2, 0, 4), Column1(<<0, -1, 0>>, 3, 0, 4)>>>>}

\* the band with the single coefficient 1 in column c, of w columns.
UnitBand(c, w) == [g \in 1..w |-> IF g = c THEN COne ELSE CZero]

\* two orthogonal bands of squared norm 2 on the columns c and d:
\* e_c + z e_d and e_c - z e_d, |z| = 1.
PairBands(c, d, z, w) ==
    <<[g \in 1..w |-> IF g = c THEN COne ELSE IF g = d THEN z ELSE CZero],
      [g \in 1..w |-> IF g = c THEN COne ELSE IF g = d THEN CNeg(z) ELSE CZero]>>

\* the wave functions the model supplies for a table of n columns.
Bands(n, sp) ==
    LET w == IF sp THEN 2 * n ELSE n
        pairs == {p \in {<<1, 2>>, <<1, n + 2>>, <<n + 1, n + 2>>} : p[2] <= w}
    IN  {<<UnitBand(1, w)>>}
        \cup {PairBands(p[1], p[2], z, w) : p \in pairs, z \in {COne, CI}}

\* spinor matrices: the identity, a spin flip and one with four entries.
SpinIdentity == <<<<COne, CZero>>, <<CZero, COne>>>>
SpinFlip == <<<<CZero, CNeg(CI)>>, <<CNeg(CI), CZero>>>>
SpinMixed == <<<<COne, CI>>, <<CI, COne>>>>
SpinMatrices == {SpinIdentity, SpinFlip, SpinMixed}

\* translations as numerators over 2
Translations == {<<0, 0, 0>>, <<1, 0, 0>>, <<0, 1, 1>>}

CallSymmEigenvalues ==
    /\ pc = "returned"
    /\ \E a \in Operations, t \in Translations, sp \in BOOLEAN :
        \E s \in (IF sp THEN SpinMatrices ELSE {SpinIdentity}),
           wf \in Bands(Len(table), sp) :
            /\ A' = a
            /\ T' = t
            /\ S' = s
            /\ evspinor' = sp
            /\ WF' = wf
            /\ traces' = SymmEigenvalues(K, kden, wf, table, a, s, t, sp)
    /\ pc' = "traced"
    /\ UNCHANGED <<inputs, N, igall, Eg, memory, table, rotind, matrix>>

\* symm_matrix on the arguments symm_eigenvalues was called with.
CallSymmMatrix ==
    /\ pc = "traced"
    /\ matrix' = SymmMatrix(K, kden, WF, table, A, S, T, evspinor)
    /\ pc' = "evaluated"
    /\ UNCHANGED <<inputs, N, igall, Eg, memory, table, A, rotind, T, S, WF,
                   evspinor, traces>>

InitEval ==
    \E kt \in EvalTables :
        /\ K = kt[1]
        /\ kden = 2
        /\ RecLattice = Tetragonal
        /\ Ecut = MaxEcut
        /\ Ecut1arg = -1
        /\ Ecut1 = MaxEcut
        /\ thresh = 0
        /\ nplane = Inf
        /\ spinor = FALSE
        /\ nplanemax = 0
        /\ pc = "returned"
        /\ N = 0
        /\ igall = <<>>
        /\ Eg = <<>>
        /\ memory = [i \in 1..MemLen |-> TRUE]
        /\ table = kt[2]
        /\ NoOperation

NextEval == CallSymmEigenvalues \/ CallSymmMatrix

SpecEval == InitEval /\ [][NextEval]_vars

(***************************************************************************)
(* Reference notions the claims are stated with.                           *)
(***************************************************************************)
L1(g) == Abs(g[1]) + Abs(g[2]) + Abs(g[3])

\* every integer triple of L1 norm at most r.
L1Ball(r) ==
    UNION {UNION {{<<a, b, c>> : c \in (-(r - Abs(a) - Abs(b)))..(r - Abs(a) - Abs(b))} :
                  b \in (-(r - Abs(a)))..(r - Abs(a))} :
           a \in (-r)..r}

\* every integer triple of L1 norm exactly r.
L1Sphere(r) == {g \in L1Ball(r) : L1(g) = r}

\* the triples of L1 norm below bound whose energy is below Ecut (none of
\* them lies outside the radius RefRadius).
BelowCutoff(bound) ==
    {g \in L1Ball(IF bound - 1 < RefRadius THEN bound - 1 ELSE RefRadius) :
        Etot(K, kden, RecLattice, g) < Ecut}

TableG == {table[i].g : i \in 1..Len(table)}

\* C1: with nplane unspecified the returned table holds exactly the triples
\* of L1 norm below nplanemax with energy below Ecut and not above Ecut1,
\* each in one column only; and each radius the loop has walked visits every
\* triple of that L1 norm exactly once.
C1_TableIsTheTriplesBelowCutoff ==
    /\ (pc = "returned" /\ nplane = Inf) =>
          /\ TableG = {g \in BelowCutoff(nplanemax) :
                          Etot(K, kden, RecLattice, g) <= Ecut1}
          /\ \A i, j \in 1..Len(table) : table[i].g = table[j].g => i = j
    /\ (pc = "loop" /\ nplane = Inf /\ N > 0) =>
          /\ {Igp(N - 1, <<>>, v) : v \in Visits(N - 1)} = L1Sphere(N - 1)
          /\ Cardinality(Visits(N - 1)) = Cardinality(L1Sphere(N - 1))

C1_Witness ==
    /\ pc = "returned"
    /\ nplane = Inf
    /\ Len(table) = 5
    /\ Len(igall) = 5
    /\ nplanemax = 3

\* C2 as amended: the returned table is sorted by non-decreasing energy, its
\* shell bounds partition the positions into contiguous ranges shared by the
\* members of a shell, consecutive entries of one shell differ in energy by
\* at most thresh, and the gap between two shells exceeds thresh.
ShellsPartition ==
    /\ \A i \in 1..(Len(Eg) - 1) : Eg[i] <= Eg[i + 1]
    /\ \A i \in 1..Len(table) :
          /\ table[i].first <= i - 1
          /\ i - 1 < table[i].last
          /\ table[i].last <= Len(table)
          /\ \A j \in (table[i].first + 1)..table[i].last :
                /\ table[j].first = table[i].first
                /\ table[j].last = table[i].last
    /\ \A i \in 1..(Len(table) - 1) :
          table[i + 1].first # table[i].first => Eg[i + 1] - Eg[i] > thresh

C2_ShellsAtMostThresh ==
    (pc = "returned") =>
        /\ Len(Eg) = Len(table)
        /\ ShellsPartition
        /\ \A i \in 1..(Len(table) - 1) :
              table[i + 1].first = table[i].first => Eg[i + 1] - Eg[i] <= thresh

\* C2 as claimed, for a positive thresh: consecutive entries of one shell
\* differ by less than thresh.
C2_Original ==
    (pc = "returned" /\ thresh > 0) =>
        /\ ShellsPartition
        /\ \A i \in 1..(Len(table) - 1) :
              table[i + 1].first = table[i].first => Eg[i + 1] - Eg[i] < thresh

C2_Witness ==
    /\ pc = "returned"
    /\ thresh > 0
    /\ Len(table) >= 3
    /\ \E j \in 1..(Len(table) - 1) :
          /\ table[j + 1].first = table[j].first
          /\ Eg[j + 1] - Eg[j] = thresh

\* C3 as amended: every entry of a returned table has an energy strictly
\* below Ecut and at most the effective Ecut1, which is the caller's Ecut1
\* when that is positive (even above Ecut) and Ecut otherwise.
C3_EnergyBelowCutoffs ==
    (pc = "returned") =>
        /\ \A i \in 1..Len(Eg) : Eg[i] < Ecut /\ Eg[i] <= Ecut1
        /\ \A i \in 1..Len(table) : Eg[i] = Etot(K, kden, RecLattice, table[i].g)
        /\ Ecut1 = (IF Ecut1arg <= 0 THEN Ecut ELSE Ecut1arg)

\* C3 as claimed: every energy strictly below the effective Ecut1 <= Ecut.
C3_Original ==
    (pc = "returned") =>
        /\ \A i \in 1..Len(Eg) : Eg[i] < Ecut1
        /\ Ecut1 <= Ecut

C3_Witness ==
    /\ pc = "returned"
    /\ Ecut1arg > 0
    /\ Ecut1 < Ecut
    /\ Len(table) > 0
    /\ Len(table) < Len(igall)

\* the plane-wave count nplane is validated against: the number of triples
\* with energy below Ecut, twice that for spinors.
TrueCount == Cardinality(BelowCutoff(RefRadius + 1))
Expected == IF spinor THEN 2 * TrueCount ELSE TrueCount

\* C4 as claimed, for the calls whose loop ended before nplanemax: with a
\* finite nplane, no table is returned when nplane differs from the true
\* number of plane waves.
C4_NoTableForMismatch ==
    (pc = "returned" /\ nplane < Inf /\ N < nplanemax) => nplane = Expected

Last10Empty ==
    /\ N >= MemLen
    /\ \A i \in 1..Len(igall) : L1(igall[i]) < N - MemLen

AtIterationStart == pc = "loop" /\ N < nplanemax

C10_KeysDistinct ==
    (pc \in {"post", "returned"} /\ igall # <<>>) =>
        \A i, j \in 1..Len(igall) :
            igall[i] # igall[j] =>
                SortKey(igall[i], SpanOf(igall)) # SortKey(igall[j], SpanOf(igall))

\* the vectors K + G of the columns, as numerators over kden.
KPlusG(i) == VAdd(K, VScale(kden, table[i].g))

\* column j holds the image of column i under the operation a: with
\* B = inv(a).T, K + G_j = B (K + G_i), that is a.T (K + G_j) = K + G_i.
IsImage(a, i, j) == MatVec(Transpose(a), KPlusG(j)) = KPlusG(i)

\* the positions (1-based) of the shell of column i.
Shell(i) == (table[i].first + 1)..table[i].last

\* a maps the k-point to an integer-equivalent point: every coordinate of
\* inv(a).T K - K is an integer.
PreservesK(a) ==
    \A c \in 1..3 : DkptNum(K, a)[c] % (kden * InvDen(a)) = 0

Metric(B) == [i \in 1..3 |-> [j \in 1..3 |-> Dot(B[i], B[j])]]
MatMul(m, n) == [i \in 1..3 |-> [j \in 1..3 |-> Dot(m[i], Transpose(n)[j])]]
IsLatticeSymmetry(a, B) ==
    LET b == InvTNum(a)
    IN  /\ InvDen(a) = 1
        /\ MatMul(MatMul(Transpose(b), Metric(B)), b) = Metric(B)

\* every integer triple of energy below Ecut and not above Ecut1 is a column.
TableComplete ==
    TableG = {g \in L1Ball(RefRadius) :
                 /\ Etot(K, kden, RecLattice, g) < Ecut
                 /\ Etot(K, kden, RecLattice, g) <= Ecut1}

\* the map of a followed by the map of the inverse of a is the identity.
InverseConsistent(a) ==
    LET back == TransformedG(K, kden, table, InvNum(a))
    IN  /\ rotind.err = "none"
        /\ back.err = "none"
        /\ \A i \in 1..Len(table) : back.rotind[rotind.rotind[i] + 1] = i - 1

\* C7 as amended: for a table that holds every triple of energy below Ecut
\* and not above Ecut1, and a lattice symmetry A that preserves the k-point,
\* both calls succeed and the map of A followed by the map of the inverse
\* of A is the identity.
C7_InverseMapOnCompleteTable ==
    (/\ pc = "mapped"
     /\ IsLatticeSymmetry(A, RecLattice)
     /\ PreservesK(A)
     /\ TableComplete) => InverseConsistent(A)

\* C7 as claimed: the same for every table calc_gvectors returns.
C7_Original ==
    (/\ pc = "mapped"
     /\ IsLatticeSymmetry(A, RecLattice)
     /\ PreservesK(A)) => InverseConsistent(A)

C7_Witness ==
    /\ pc = "mapped"
    /\ A = C4z
    /\ K = <<1, 1, 0>>
    /\ IsLatticeSymmetry(A, RecLattice)
    /\ TableComplete
    /\ Len(table) = 4
    /\ rotind.err = "none"
    /\ \E i \in 1..Len(table) : rotind.rotind[i] # i - 1

\* the distance of n / d from the nearest integer, as a numerator over d.
FromInteger(n, d) == IF n % d <= d - (n % d) THEN n % d ELSE d - (n % d)

\* the distance x / d is within atol + rtol * |n / d|.
WithinTolerance(x, n, d) ==
    /\ x <= 20000
    /\ x * RtolInv <= (d \div (AtolInv \div RtolInv)) + Abs(n)

\* kpt_ - kpt is integer-valued within the tolerance of np.isclose.
NearlyPreservesK(a) ==
    \A c \in 1..3 :
        LET n == DkptNum(K, a)[c]
            d == kden * InvDen(a)
        IN  WithinTolerance(FromInteger(n, d), n, d)

\* C8 as amended: transformed_g raises NotSymmetryError exactly when some
\* coordinate of A^-T K - K is farther from the nearest integer than the
\* tolerance of np.isclose (1e-8 + 1e-5 * |A^-T K - K|); the missing-partner
\* RuntimeError occurs only for operations within that tolerance.
C8_NotSymmetryBeyondTolerance ==
    (pc = "mapped") =>
        /\ rotind.err = "NotSymmetryError" <=> ~NearlyPreservesK(A)
        /\ rotind.err = "RuntimeError" => NearlyPreservesK(A)

\* C8 as claimed: NotSymmetryError whenever A^-T K - K is not an integer
\* vector, and the RuntimeError only when it is one.
C8_Original ==
    (pc = "mapped") =>
        /\ ~PreservesK(A) => rotind.err = "NotSymmetryError"
        /\ rotind.err = "RuntimeError" => PreservesK(A)

C8_Witness ==
    /\ pc = "mapped"
    /\ A = Inversion
    /\ K = <<Half + 501, 0, 0>>
    /\ rotind.err = "NotSymmetryError"

\* C9 as claimed: whenever both evaluators return for the same K, table, WF,
\* A, S and T, the value symm_eigenvalues gives for band m equals the
\* diagonal element (m, m) of the matrix symm_matrix gives.
C9_TraceEqualsDiagonal ==
    (pc = "evaluated" /\ traces.err = "none" /\ matrix.err = "none") =>
        \A m \in 1..Len(WF) : traces.val[m] = matrix.val[m][m]

====
